---- MODULE Spec2Model ----
(***************************************************************************)
(* Components of the tutorial repository:                                  *)
(*                                                                         *)
(*  - the tool-call loop of 17-use-mcp-toolkit-with-tools-chain/main.go    *)
(*    (DetectToolThenCallIt, the pass loop and the final streamed          *)
(*    completion), specification Spec / FairSpec;                          *)
(*  - the in-memory vector store rag.MemoryVectorStore with                *)
(*    rag.CosineSimilarity, specification SpecIndex (and SpecSort for the  *)
(*    sort of getTopNVectorRecords, SpecCosine for CosineSimilarity);      *)
(*  - main of 03-embeddings-distances, which embeds the chunks, saves      *)
(*    them and searches for the question, specification SpecRag;           *)
(*  - main of 06-tools, which dispatches the tool calls of one             *)
(*    completion, specification SpecTools.                                 *)
(*                                                                         *)
(* The completion capability, the MCP tool server and the callers of the   *)
(* store are the environment: their answers and inputs are drawn from      *)
(* small sets.                                                             *)
(***************************************************************************)
EXTENDS Integers, Sequences, FiniteSets, TLC

\* Total number of tool calls the completion capability returns over one run.
MaxCalls == 3

VARIABLES
    \* ---- tool-call loop (main of 17-use-mcp-toolkit-with-tools-chain) ----
    mcpTools,           \* tools listed by mcpClient.ListTools, in order
    messages,           \* the conversation, a sequence of messages
    pass,               \* the pass counter of the loop
    pc,                 \* position of main
    detectedToolCalls,  \* the batch of the current pass
    idx,                \* position of the range loop in the batch
    toolMessages,       \* result messages collected in the current pass
    requests,           \* log: every request sent to the completion capability
    responses,          \* log: the answer to every detection request
    invocations,        \* log: every mcpClient.CallTool and its outcome
    \* ---- vector store (rag.MemoryVectorStore) ----
    Records,            \* the map id -> VectorRecord
    generated,          \* ids uuid.New() has handed out
    lastOp,             \* the last store operation and its inputs
    result,             \* what the last store operation returned
    \* ---- main of 03-embeddings-distances ----
    ragPc,              \* position of main
    chunkIdx,           \* position of the range loop over chunks
    embedLog,           \* log: the outcome of every embedding request
    \* ---- main of 06-tools ----
    toolsPc,            \* position of main
    toolCalls,          \* the tool calls of the completion
    toolIdx,            \* position of the range loop over toolCalls
    printed             \* the lines written to standard output

loopVars == <<mcpTools, messages, pass, pc, detectedToolCalls, idx, toolMessages,
              requests, responses, invocations>>
indexVars == <<Records, generated, lastOp, result>>
ragVars == <<ragPc, chunkIdx, embedLog>>
toolsVars == <<toolsPc, toolCalls, toolIdx, printed>>
vars == <<mcpTools, messages, pass, pc, detectedToolCalls, idx, toolMessages,
          requests, responses, invocations, Records, generated, lastOp, result,
          ragPc, chunkIdx, embedLog, toolsPc, toolCalls, toolIdx, printed>>

\* What a step of one component leaves alone.
outsideLoop == <<indexVars, ragVars, toolsVars>>
outsideIndex == <<loopVars, ragVars, toolsVars>>
outsideRag == <<loopVars, toolsVars>>
outsideTools == <<loopVars, indexVars, ragVars>>

Range(s) == {s[i] : i \in DOMAIN s}

(***************************************************************************)
(*                          THE TOOL-CALL LOOP                             *)
(***************************************************************************)

\* The pass limit of the loop: "if pass > 2 { break }".
MaxPasses == 2

\* ---- messages ----------------------------------------------------------

SystemMessage(text) == [role |-> "system", content |-> text, tool_call_id |-> 0]
UserMessage(text) == [role |-> "user", content |-> text, tool_call_id |-> 0]
ToolMessage(text, id) == [role |-> "tool", content |-> text, tool_call_id |-> id]

\* The messages main builds before the loop.
InitialMessages ==
    << SystemMessage("You are a pizza expert."),
       SystemMessage("Focus only on the part of the text that is related to tools to call."),
       UserMessage("userQuestion") >>

\* ---- the declared tools ------------------------------------------------

\* A listed tool (mcp_golang.ToolRetType): its name, whether its optional
\* description is set, and whether its input schema is a JSON object.
Tool(name) == [name |-> name, hasDescription |-> TRUE, schemaIsObject |-> TRUE]
ToolWithoutDescription(name) ==
    [name |-> name, hasDescription |-> FALSE, schemaIsObject |-> TRUE]
ToolWithoutSchema(name) ==
    [name |-> name, hasDescription |-> TRUE, schemaIsObject |-> FALSE]

\* What the MCP server may list: nothing, a tool the program filters out, one
\* it keeps, both kept tools together with the one filtered out, and lists
\* with a tool that has no description or no object schema.
McpToolLists ==
    { <<>>, <<Tool("curl")>>, <<Tool("fetch")>>,
      <<Tool("brave_web_search"), Tool("curl"), Tool("fetch")>>,
      <<ToolWithoutDescription("curl"), Tool("fetch")>>,
      <<ToolWithoutDescription("fetch")>>,
      <<Tool("brave_web_search"), ToolWithoutSchema("fetch")>> }

\* The names the server lists.
ListedNames == {mcpTools[i].name : i \in DOMAIN mcpTools}

KeepTool(tool) == tool.name = "brave_web_search" \/ tool.name = "fetch"

\* filteredTools: the listed tools the program keeps, in order.
FilterTools(tools) == SelectSeq(tools, KeepTool)

\* ConvertToOpenAITools keeps one schema per tool, under the tool's name.
\* tool.InputSchema.(map[string]any) panics on a schema that is no object
\* and *tool.Description on a tool without description.
ConvertToOpenAITools(tools) ==
    IF \E i \in DOMAIN tools : ~tools[i].schemaIsObject \/ ~tools[i].hasDescription
    THEN [panic |-> TRUE, tools |-> <<>>]
    ELSE [panic |-> FALSE, tools |-> [i \in DOMAIN tools |-> tools[i].name]]

openAITools == ConvertToOpenAITools(FilterTools(mcpTools)).tools

\* Where main stands once the tools are converted: at the first request of
\* the loop, or ended by the panic of the conversion.
AfterConversion ==
    IF ConvertToOpenAITools(FilterTools(mcpTools)).panic THEN "panicked" ELSE "requesting"

\* ---- JSON arguments ----------------------------------------------------

\* An argument string is held as its sequence of JSON tokens.
StringTokens == {"\"url\"", "\"x\"", "\"name\"", "\"Spock\"", "\"James Kirk\""}
ValueTokens == StringTokens \cup {"1", "true", "null"}

ArgsUrl == <<"{", "\"url\"", ":", "\"x\"", "}">>
ArgsEmpty == <<"{", "}">>
ArgsTruncated == <<"{", "\"url\"", ":">>

ArgsNull == <<"null">>

\* The JSON grammar on tokens: a value is a scalar, an object or an array; an
\* object is a brace, members key : value separated by commas, and a brace.
\* ValueEnd is the position of the last token of the value that starts at
\* position i, and 0 when no value starts there.
RECURSIVE ValueEnd(_, _), MembersEnd(_, _), ElementsEnd(_, _)
ValueEnd(s, i) ==
    IF i > Len(s) THEN 0
    ELSE IF s[i] \in ValueTokens THEN i
    ELSE IF s[i] = "{"
    THEN IF i + 1 <= Len(s) /\ s[i + 1] = "}" THEN i + 1 ELSE MembersEnd(s, i + 1)
    ELSE IF s[i] = "["
    THEN IF i + 1 <= Len(s) /\ s[i + 1] = "]" THEN i + 1 ELSE ElementsEnd(s, i + 1)
    ELSE 0

\* The position of the brace that closes the object whose next member starts
\* at position i, and 0 on a syntax error.
MembersEnd(s, i) ==
    IF i + 1 > Len(s) \/ s[i] \notin StringTokens \/ s[i + 1] # ":" THEN 0
    ELSE LET e == ValueEnd(s, i + 2)
         IN IF e = 0 \/ e + 1 > Len(s) THEN 0
            ELSE IF s[e + 1] = "}" THEN e + 1
            ELSE IF s[e + 1] = "," THEN MembersEnd(s, e + 2)
            ELSE 0

\* The same for the bracket that closes an array.
ElementsEnd(s, i) ==
    LET e == ValueEnd(s, i)
    IN IF e = 0 \/ e + 1 > Len(s) THEN 0
       ELSE IF s[e + 1] = "]" THEN e + 1
       ELSE IF s[e + 1] = "," THEN ElementsEnd(s, e + 2)
       ELSE 0

\* The whole of s is one JSON object.
ValidObject(s) == s # <<>> /\ s[1] = "{" /\ ValueEnd(s, 1) = Len(s)

\* The members of a valid object from the key at position i on, in order.
RECURSIVE MembersFrom(_, _)
MembersFrom(s, i) ==
    IF s[i] = "}" THEN <<>>
    ELSE LET e == ValueEnd(s, i + 2)
         IN <<[key |-> s[i], from |-> i + 2, to |-> e]>>
            \o (IF s[e + 1] = "," THEN MembersFrom(s, e + 2) ELSE <<>>)

\* The text of a run of tokens.
RECURSIVE Text(_)
Text(s) == IF s = <<>> THEN "" ELSE Head(s) \o Text(Tail(s))

\* What a member's value decodes to: a scalar is held as its token, an
\* object or an array as its text.
DecodedValue(s, m) == IF m.from = m.to THEN s[m.from] ELSE Text(SubSeq(s, m.from, m.to))

\* json.Unmarshal([]byte(s), &args) on a nil map[string]any: an object is
\* stored member by member, a later member replacing an earlier one of the
\* same key; the value null stores nothing and is no error; on anything
\* else (a syntax error, a value that is no object) args stays nil and the
\* error is returned.
Unmarshal(s) ==
    IF ValidObject(s)
    THEN LET ms == MembersFrom(s, 2)
         IN [err |-> FALSE, isNil |-> FALSE,
             kv |-> {<<ms[j].key, DecodedValue(s, ms[j])>> :
                       j \in {i \in DOMAIN ms :
                                \A k \in DOMAIN ms : k > i => ms[k].key # ms[i].key}}]
    ELSE IF s = ArgsNull
    THEN [err |-> FALSE, isNil |-> TRUE, kv |-> {}]
    ELSE [err |-> TRUE, isNil |-> TRUE, kv |-> {}]

\* ---- the environment's answers ------------------------------------------

\* The shapes of tool call the completion capability may return.
CallShapes ==
    { [name |-> "fetch", arguments |-> ArgsUrl],
      [name |-> "fetch", arguments |-> ArgsTruncated],
      [name |-> "fetch", arguments |-> ArgsNull],
      [name |-> "curl", arguments |-> ArgsEmpty],
      [name |-> "unregistered_tool", arguments |-> ArgsEmpty] }

\* Tool calls returned so far; the completion capability numbers its calls.
RECURSIVE CallsIn(_)
CallsIn(rs) == IF rs = <<>> THEN 0 ELSE Len(Head(rs).calls) + CallsIn(Tail(rs))

Issued == CallsIn(responses)

\* The batches the completion capability may return now: up to the calls left,
\* each call of one of the shapes, under the next ids.
Batches ==
    UNION { { [i \in 1..n |-> [id |-> Issued + i, name |-> f[i].name,
                               arguments |-> f[i].arguments]] :
              f \in [1..n -> CallShapes] } : n \in 0..(MaxCalls - Issued) }

\* The text a tool returns is a token of its own for every invocation.
Texts == <<"text-1", "text-2", "text-3", "text-4", "text-5", "text-6">>

\* What mcpClient.CallTool may answer: a tool the server does not list is an
\* error; a listed tool fails, returns a text, or returns no text content.
ToolOutcomes(name) ==
    IF name \in ListedNames THEN {"err", "text", "notext"} ELSE {"err"}

\* ---- DetectToolThenCallIt ----------------------------------------------

\* Faulty variant of DetectParams: once the conversation has grown the request
\* carries no tool schemas.
DetectParamsFirstOnly(msgs) ==
    [kind |-> "detect", messages |-> msgs,
     tools |-> IF Len(msgs) > Len(InitialMessages) THEN <<>> ELSE openAITools,
     temperature |-> "0.0"]

\* The parameters of a detection request.
DetectParams(msgs) ==
    [kind |-> "detect", messages |-> msgs, tools |-> openAITools, temperature |-> "0.0"]

\* The parameters of the final, streamed request.
FinalParams(msgs) ==
    [kind |-> "final", messages |-> msgs, tools |-> <<>>, temperature |-> "0.9"]

\* The request fails: the error is logged and the closure returns false, which
\* ends the pass loop.
DetectError ==
    /\ pc = "requesting"
    /\ requests' = Append(requests, DetectParams(messages))
    /\ responses' = Append(responses, [kind |-> "err", calls |-> <<>>])
    /\ pc' = "final"
    /\ UNCHANGED <<mcpTools, messages, pass, detectedToolCalls, idx, toolMessages,
                   invocations>>

\* Faulty variant of DetectNoChoices: an empty choice list is taken for a
\* response without tool calls and the closure returns false.
DetectNoChoicesSwallowed ==
    /\ pc = "requesting"
    /\ requests' = Append(requests, DetectParams(messages))
    /\ responses' = Append(responses, [kind |-> "nochoices", calls |-> <<>>])
    /\ pc' = "final"
    /\ UNCHANGED <<mcpTools, messages, pass, detectedToolCalls, idx, toolMessages,
                   invocations>>

\* The response holds no choice: completion.Choices[0] is out of range.
DetectNoChoices ==
    /\ pc = "requesting"
    /\ requests' = Append(requests, DetectParams(messages))
    /\ responses' = Append(responses, [kind |-> "nochoices", calls |-> <<>>])
    /\ pc' = "panicked"
    /\ UNCHANGED <<mcpTools, messages, pass, detectedToolCalls, idx, toolMessages,
                   invocations>>

\* Faulty variant of Detect: the pass limit is looked at as soon as the batch
\* is known, and the batch of the last permitted pass is left unexecuted.
DetectThenLimit ==
    /\ pc = "requesting"
    /\ \E batch \in Batches :
         /\ requests' = Append(requests, DetectParams(messages))
         /\ responses' = Append(responses, [kind |-> "calls", calls |-> batch])
         /\ detectedToolCalls' = batch
         /\ IF Len(batch) = 0
            THEN /\ pc' = "final"
                 /\ UNCHANGED <<idx, toolMessages, pass>>
            ELSE IF pass >= MaxPasses
            THEN /\ pc' = "final"
                 /\ pass' = pass + 1
                 /\ UNCHANGED <<idx, toolMessages>>
            ELSE /\ pc' = "executing"
                 /\ idx' = 1
                 /\ toolMessages' = <<>>
                 /\ UNCHANGED pass
    /\ UNCHANGED <<mcpTools, messages, invocations>>

\* The response holds a message with a batch of tool calls, possibly empty.
Detect ==
    /\ pc = "requesting"
    /\ \E batch \in Batches :
         /\ requests' = Append(requests, DetectParams(messages))
         /\ responses' = Append(responses, [kind |-> "calls", calls |-> batch])
         /\ detectedToolCalls' = batch
         /\ IF Len(batch) = 0
            THEN /\ pc' = "final"
                 /\ UNCHANGED <<idx, toolMessages>>
            ELSE /\ pc' = "executing"
                 /\ idx' = 1
                 /\ toolMessages' = <<>>
    /\ UNCHANGED <<mcpTools, messages, pass, invocations>>

\* Faulty variant of CollectToolMessage: every message goes under the id of the first
\* call of the batch.
CollectUnderFirstId(tm, toolCall, outcome, text) ==
    IF outcome = "err" THEN tm ELSE Append(tm, ToolMessage(text, detectedToolCalls[1].id))

\* Faulty variant of CollectToolMessage: the continue is missing, a failed call adds a
\* message too.
CollectAlways(tm, toolCall, outcome, text) ==
    Append(tm, ToolMessage(text, toolCall.id))

\* Faulty variant of CollectToolMessage: the message is put in front of those
\* collected so far.
CollectInFront(tm, toolCall, outcome, text) ==
    IF outcome = "err" THEN tm ELSE <<ToolMessage(text, toolCall.id)>> \o tm

\* The result messages after one call: a failed call adds nothing (continue),
\* a call that returned a text adds a tool message under the call's id.
CollectToolMessage(tm, toolCall, outcome, text) ==
    IF outcome = "err" THEN tm ELSE Append(tm, ToolMessage(text, toolCall.id))

\* Faulty variant of NextCall: a failed call leaves the range loop (break for
\* continue).
NextCallBreak(i, outcome) ==
    IF outcome = "err" THEN Len(detectedToolCalls) + 1 ELSE i + 1

\* Where the range loop goes after one call, whatever its outcome.
NextCall(i, outcome) == i + 1

\* One iteration of the range loop over the batch.
ExecCall ==
    /\ pc = "executing"
    /\ idx <= Len(detectedToolCalls)
    /\ LET toolCall == detectedToolCalls[idx]
           parsed == Unmarshal(toolCall.arguments)
           text == Texts[Len(invocations) + 1]
       IN \E outcome \in ToolOutcomes(toolCall.name) :
            /\ invocations' = Append(invocations,
                    [id |-> toolCall.id, name |-> toolCall.name, pass |-> pass,
                     parseErr |-> parsed.err, args |-> parsed.kv, argsNil |-> parsed.isNil,
                     outcome |-> outcome, text |-> text])
            /\ IF outcome = "notext"
               THEN /\ pc' = "panicked"
                    /\ UNCHANGED <<idx, toolMessages>>
               ELSE /\ toolMessages' = CollectToolMessage(toolMessages, toolCall, outcome, text)
                    /\ idx' = NextCall(idx, outcome)
                    /\ pc' = "executing"
    /\ UNCHANGED <<mcpTools, messages, pass, detectedToolCalls, requests, responses>>

\* Faulty variant of PassLimitReached: the limit is off by one.
PassLimitLate(p) == p > MaxPasses + 1

\* Faulty variant of PassLimitReached: the break is missing.
PassLimitNever(p) == FALSE

\* The pass limit of the loop.
PassLimitReached(p) == p > MaxPasses

\* Faulty variant of AppendToolMessages: a pass that collected no message makes
\* the closure return false and ends the loop.
AppendToolMessagesOrStop ==
    /\ pc = "executing"
    /\ idx > Len(detectedToolCalls)
    /\ messages' = messages \o toolMessages
    /\ pass' = pass + 1
    /\ pc' = IF toolMessages = <<>> \/ PassLimitReached(pass + 1)
             THEN "final" ELSE "requesting"
    /\ UNCHANGED <<mcpTools, detectedToolCalls, idx, toolMessages, requests, responses,
                   invocations>>

\* The batch is done: the collected messages are appended at once, the closure
\* returns true and the loop body counts the pass.
AppendToolMessages ==
    /\ pc = "executing"
    /\ idx > Len(detectedToolCalls)
    /\ messages' = messages \o toolMessages
    /\ pass' = pass + 1
    /\ pc' = IF PassLimitReached(pass + 1) THEN "final" ELSE "requesting"
    /\ UNCHANGED <<mcpTools, detectedToolCalls, idx, toolMessages, requests, responses,
                   invocations>>

\* After the loop: "/no_think" is appended and the conversation is sent, with no
\* tools, for the streamed answer.
FinalCompletion ==
    /\ pc = "final"
    /\ messages' = Append(messages, SystemMessage("/no_think"))
    /\ requests' = Append(requests, FinalParams(messages'))
    /\ pc' = "done"
    /\ UNCHANGED <<mcpTools, pass, detectedToolCalls, idx, toolMessages, responses,
                   invocations>>

(***************************************************************************)
(*                           THE VECTOR STORE                              *)
(***************************************************************************)

\* Number of entries the store holds at most.
MaxRecords == 3

\* A float64 score is held as the exact fraction <<numerator, denominator>>,
\* denominator > 0. The embeddings of the model have integer norms, so the dot
\* products, the square roots and the product of the norms are exact in
\* float64 and the one rounding, of the final division, keeps the order and
\* the equality of these fractions and of the limits below.
Zero == <<0, 1>>
Geq(a, b) == a[1] * b[2] >= b[1] * a[2]
Gt(a, b) == a[1] * b[2] > b[1] * a[2]
Same(a, b) == a[1] * b[2] = b[1] * a[2]

\* dotProduct ranges over v1 and indexes v2: it is out of range on a shorter v2.
DotPanics(v1, v2) == Len(v2) < Len(v1)

dotProduct(v1, v2) ==
    LET sum[i \in 0..Len(v1)] == IF i = 0 THEN 0 ELSE sum[i - 1] + v1[i] * v2[i]
    IN sum[Len(v1)]

\* math.Sqrt on the squares the model meets.
Sqrt(n) == CHOOSE r \in 0..n : r * r = n

CosineSimilarity(v1, v2) ==
    LET product == dotProduct(v1, v2)
        norm1 == Sqrt(dotProduct(v1, v1))
        norm2 == Sqrt(dotProduct(v2, v2))
    IN IF norm1 <= 0 \/ norm2 <= 0 THEN Zero ELSE <<product, norm1 * norm2>>

\* ---- the same function over the range of float64 --------------------------

\* A float64 is NaN, +Inf, -Inf or a number m * 2^e, m an integer of few
\* bits: such a number is a float64 exactly when it is below 2^1024 and
\* e >= MinExponent, the exponent of the smallest float64.
MaxExponent == 1023
MinExponent == 0 - 1074

Num(m, e) == [kind |-> "num", m |-> m, e |-> e]
FloatZero == Num(0, 0)
FloatNaN == [kind |-> "nan", m |-> 0, e |-> 0]
Inf(m) == [kind |-> IF m > 0 THEN "inf" ELSE "-inf", m |-> 0, e |-> 0]
IsInf(x) == x.kind \in {"inf", "-inf"}

Abs(n) == IF n < 0 THEN 0 - n ELSE n

RECURSIVE BitLen(_)
BitLen(n) == IF n = 0 THEN 0 ELSE 1 + BitLen(n \div 2)

RECURSIVE Pow2(_)
Pow2(d) == IF d = 0 THEN 1 ELSE 2 * Pow2(d - 1)

\* m / q rounded to the nearest integer, a tie to the even one.
RoundHalfEven(m, q) ==
    LET f == Abs(m) \div q
        r == Abs(m) % q
        u == IF 2 * r > q \/ (2 * r = q /\ f % 2 = 1) THEN f + 1 ELSE f
    IN IF m < 0 THEN 0 - u ELSE u

\* The float64 nearest to m * 2^e: an infinity from 2^1024 on, a multiple of
\* 2^MinExponent below the normal range.
Round(m, e) ==
    IF m = 0 THEN FloatZero
    ELSE IF BitLen(Abs(m)) + e > MaxExponent + 1 THEN Inf(m)
    ELSE IF e >= MinExponent THEN Num(m, e)
    ELSE IF BitLen(Abs(m)) < MinExponent - e THEN FloatZero
    ELSE LET u == RoundHalfEven(m, Pow2(MinExponent - e))
         IN IF u = 0 THEN FloatZero ELSE Num(u, MinExponent)

\* The exact sum of two numbers, as an integer at the smaller exponent.
Aligned(m1, e1, m2, e2) ==
    LET e == IF m1 = 0 THEN e2 ELSE IF m2 = 0 \/ e1 <= e2 THEN e1 ELSE e2
    IN [m |-> (IF m1 = 0 THEN 0 ELSE m1 * Pow2(e1 - e))
              + (IF m2 = 0 THEN 0 ELSE m2 * Pow2(e2 - e)),
        e |-> e]

\* x + y in float64.
Add(x, y) ==
    IF x.kind = "nan" \/ y.kind = "nan" THEN FloatNaN
    ELSE IF IsInf(x) /\ IsInf(y) THEN IF x.kind = y.kind THEN x ELSE FloatNaN
    ELSE IF IsInf(x) THEN x
    ELSE IF IsInf(y) THEN y
    ELSE LET t == Aligned(x.m, x.e, y.m, y.e) IN Round(t.m, t.e)

\* sum + p * 2^k with the one rounding of a fused multiply-add: the exact
\* product is finite, so an infinite sum stays what it is.
Fma(sum, p, k) ==
    IF sum.kind # "num" THEN sum
    ELSE IF sum.m # 0 /\ k < sum.e /\ BitLen(Abs(p)) < sum.e - k /\ sum.e = MinExponent
    THEN sum
    ELSE LET t == Aligned(sum.m, sum.e, p, k) IN Round(t.m, t.e)

\* The Go specification lets a build fuse x*y + z into one rounding.
Builds == {"rounded", "fused"}

\* dotProduct of the float64 vectors 2^k1 * v1 and 2^k2 * v2, v1 and v2 of
\* small integers: sum += v1[i] * v2[i], term by term.
dotProductFloat(build, k1, v1, k2, v2) ==
    LET sum[i \in 0..Len(v1)] ==
            IF i = 0 THEN FloatZero
            ELSE IF build = "fused" THEN Fma(sum[i - 1], v1[i] * v2[i], k1 + k2)
            ELSE Add(sum[i - 1], Round(v1[i] * v2[i], k1 + k2))
    IN sum[Len(v1)]

\* math.Sqrt of a sum of squares; the numbers it meets are squares of an
\* even exponent.
SqrtFloat(x) == IF x.kind = "num" THEN Num(Sqrt(x.m), x.e \div 2) ELSE x

\* norm1 * norm2, of norms that are not negative.
MulFloat(x, y) ==
    IF x.kind = "nan" \/ y.kind = "nan" THEN FloatNaN
    ELSE IF IsInf(x) \/ IsInf(y)
    THEN IF (x.kind = "num" /\ x.m = 0) \/ (y.kind = "num" /\ y.m = 0)
         THEN FloatNaN ELSE Inf(1)
    ELSE Round(x.m * y.m, x.e + y.e)

Number(x) == [nan |-> FALSE, value |-> x]
NaN == [nan |-> TRUE, value |-> Zero]

\* product / d for d not negative; the quotient of two numbers is held as
\* the fraction, an infinite quotient as a fraction of denominator 0.
DivFloat(x, d) ==
    IF x.kind = "nan" \/ d.kind = "nan" THEN NaN
    ELSE IF IsInf(d) THEN IF IsInf(x) THEN NaN ELSE Number(Zero)
    ELSE IF IsInf(x) THEN Number(<<IF x.kind = "inf" THEN 1 ELSE 0 - 1, 0>>)
    ELSE IF d.m = 0
    THEN IF x.m = 0 THEN NaN ELSE Number(<<IF x.m > 0 THEN 1 ELSE 0 - 1, 0>>)
    ELSE IF x.m = 0 THEN Number(Zero)
    ELSE IF x.e >= d.e THEN Number(<<x.m * Pow2(x.e - d.e), d.m>>)
    ELSE Number(<<x.m, d.m * Pow2(d.e - x.e)>>)

\* The magnitudes of the vectors: a scale of 2^0, 2^600 or 2^-600. At these
\* the squares are exact, infinite or zero.
Scales == {"one", "huge", "tiny"}
ScaleExponent(k) == CASE k = "one" -> 0 [] k = "huge" -> 600 [] k = "tiny" -> 0 - 600

\* Faulty variant of CosineSimilarityFloat: the test of the norms is missing
\* and a zero norm is divided by.
CosineSimilarityUnguarded(build, k1, v1, k2, v2) ==
    LET e1 == ScaleExponent(k1)
        e2 == ScaleExponent(k2)
        product == dotProductFloat(build, e1, v1, e2, v2)
        norm1 == SqrtFloat(dotProductFloat(build, e1, v1, e1, v1))
        norm2 == SqrtFloat(dotProductFloat(build, e2, v2, e2, v2))
    IN DivFloat(product, MulFloat(norm1, norm2))

\* CosineSimilarity of the float64 vectors 2^k1 * v1 and 2^k2 * v2.
CosineSimilarityFloat(build, k1, v1, k2, v2) ==
    LET e1 == ScaleExponent(k1)
        e2 == ScaleExponent(k2)
        product == dotProductFloat(build, e1, v1, e2, v2)
        norm1 == SqrtFloat(dotProductFloat(build, e1, v1, e1, v1))
        norm2 == SqrtFloat(dotProductFloat(build, e2, v2, e2, v2))
    IN IF (norm1.kind = "num" /\ norm1.m <= 0) \/ (norm2.kind = "num" /\ norm2.m <= 0)
       THEN Number(Zero)
       ELSE DivFloat(product, MulFloat(norm1, norm2))

\* ---- the callers' inputs -------------------------------------------------

VectorRecord(id, prompt, embedding, score) ==
    [Id |-> id, Prompt |-> prompt, Embedding |-> embedding, CosineSimilarity |-> score]

\* The records callers save: chunks without an id, two versions of a record
\* under the id "a" (one of them with a zero embedding and a score left from
\* an earlier query), and a chunk embedded by a model of another dimension.
SaveInputs ==
    { VectorRecord("", "The frogs swim in the pond", <<4, 3>>, Zero),
      VectorRecord("", "The fish swim in the sea", <<3, 4>>, Zero),
      VectorRecord("a", "The lions run in the savannah", <<-4, 3>>, Zero),
      VectorRecord("a", "The birds fly in the sky", <<0, 0>>, <<1, 2>>),
      VectorRecord("", "short", <<5>>, Zero) }

Queries == { <<3, 4>>, <<5, 0>>, <<0, 0>>, <<5>> }

\* 0.6, 0 and 1.
Limits == { <<3, 5>>, Zero, <<1, 1>> }

MaxValues == (0 - 1)..MaxRecords

\* uuid.New().String(): an id never handed out before.
Uuids == <<"uuid-1", "uuid-2", "uuid-3", "uuid-4", "uuid-5">>

\* Faulty variant of NewUuid: the generator hands out the same id every time.
NewUuidFixed == Uuids[1]

\* The next id of the generator.
NewUuid == Uuids[Cardinality(generated) + 1]

\* The orders in which a range over the map may visit its keys.
RECURSIVE Orders(_)
Orders(S) ==
    IF S = {} THEN {<<>>}
    ELSE UNION { { <<x>> \o o : o \in Orders(S \ {x}) } : x \in S }

Returned(recs) == [panic |-> FALSE, records |-> recs]
Panicked == [panic |-> TRUE, records |-> <<>>]

\* ---- the operations -------------------------------------------------------

\* Faulty variant of GetAllIn: the record visited last is not appended.
GetAllButLast(order) == [i \in 1..(Len(order) - 1) |-> Records[order[i]]]

\* GetAll: the records in the order the map is ranged over.
GetAllIn(order) == [i \in DOMAIN order |-> Records[order[i]]]

\* Faulty variant of SearchSimilaritiesIn: the limit is exclusive (> for >=).
SearchSimilaritiesAbove(order, embedding, limit) ==
    LET records[i \in 0..Len(order)] ==
            IF i = 0 THEN <<>>
            ELSE LET v == Records[order[i]]
                     distance == CosineSimilarity(embedding, v.Embedding)
                 IN IF Gt(distance, limit)
                    THEN Append(records[i - 1], [v EXCEPT !.CosineSimilarity = distance])
                    ELSE records[i - 1]
    IN records[Len(order)]

\* SearchSimilarities over the map ranged in the given order.
SearchSimilaritiesIn(order, embedding, limit) ==
    LET records[i \in 0..Len(order)] ==
            IF i = 0 THEN <<>>
            ELSE LET v == Records[order[i]]
                     distance == CosineSimilarity(embedding, v.Embedding)
                 IN IF Geq(distance, limit)
                    THEN Append(records[i - 1], [v EXCEPT !.CosineSimilarity = distance])
                    ELSE records[i - 1]
    IN records[Len(order)]

SearchPanics(embedding) ==
    \E id \in DOMAIN Records : DotPanics(embedding, Records[id].Embedding)

\* Faulty variant of RecordsAfterSearch: the score is written to the stored
\* record, as it would be if the map held pointers.
RecordsScored(embedding, limit) ==
    IF SearchPanics(embedding) THEN Records
    ELSE [id \in DOMAIN Records |->
            LET distance == CosineSimilarity(embedding, Records[id].Embedding)
            IN IF Geq(distance, limit)
               THEN [Records[id] EXCEPT !.CosineSimilarity = distance]
               ELSE Records[id]]

\* The map after a search: the range variable v is a copy of the map's value,
\* so v.CosineSimilarity = distance writes to the copy and the map keeps its
\* records.
RecordsAfterSearch(embedding, limit) == Records

\* Faulty variant of Less: the sort is ascending (< for >).
LessAscending(a, b) == Gt(b.CosineSimilarity, a.CosineSimilarity)

\* The less function handed to sort.Slice.
Less(a, b) == Gt(a.CosineSimilarity, b.CosineSimilarity)

\* sort.Slice on up to maxInsertion elements is an insertion sort: each
\* element in turn is swapped towards the front while it is less than its
\* predecessor, so it stops behind the last element it is not less than.
Insert(s, x) ==
    LET stop == CHOOSE k \in 0..Len(s) :
                    /\ k = 0 \/ ~Less(x, s[k])
                    /\ \A j \in (k + 1)..Len(s) : Less(x, s[j])
    IN SubSeq(s, 1, stop) \o <<x>> \o SubSeq(s, stop + 1, Len(s))

insertionSort(s) ==
    LET sorted[i \in 0..Len(s)] == IF i = 0 THEN <<>> ELSE Insert(sorted[i - 1], s[i])
    IN sorted[Len(s)]

\* Above maxInsertion elements sort.Slice (pdqsort) picks a pivot, returns at
\* once when the slice is already in order, and otherwise partitions around
\* the pivot and sorts the two sides. What follows is that first round, on
\* one-based positions; it is the whole sort for a slice of maxInsertion + 1
\* elements, whose two sides are then short enough for the insertion sort.
maxInsertion == 12

Swap(s, i, j) == [s EXCEPT ![i] = s[j], ![j] = s[i]]

\* order2: the two positions in order, and whether they were exchanged.
order2(s, a, b) == IF Less(s[b], s[a]) THEN <<b, a, 1>> ELSE <<a, b, 0>>

\* choosePivot on fewer than 50 elements: the median of the three positions
\* at the quarters of the slice, and the number of exchanges that found it.
choosePivot(s) ==
    LET l == Len(s)
        i == 1 + (l \div 4)
        j == 1 + (l \div 4) * 2
        k == 1 + (l \div 4) * 3
        ab == order2(s, i, j)
        bc == order2(s, ab[2], k)
        ab2 == order2(s, ab[1], bc[1])
    IN [pivot |-> ab2[2], swaps |-> ab[3] + bc[3] + ab2[3]]

\* partialInsertionSort on fewer than 50 elements succeeds exactly when the
\* slice is in order already, and changes nothing otherwise.
InOrder(s) == \A i \in 2..Len(s) : ~Less(s[i], s[i - 1])

\* partition_func: the pivot goes to the front, the elements less than it are
\* gathered on its left by exchanges from both ends, and it is put between.
RECURSIVE ScanUp(_, _, _)
ScanUp(s, i, j) == IF i <= j /\ Less(s[i], s[1]) THEN ScanUp(s, i + 1, j) ELSE i

RECURSIVE ScanDown(_, _, _)
ScanDown(s, i, j) == IF i <= j /\ ~Less(s[j], s[1]) THEN ScanDown(s, i, j - 1) ELSE j

RECURSIVE PartitionFrom(_, _, _)
PartitionFrom(s, i, j) ==
    LET i2 == ScanUp(s, i, j)
        j2 == ScanDown(s, i2, j)
    IN IF i2 > j2 THEN [data |-> Swap(s, j2, 1), mid |-> j2]
       ELSE PartitionFrom(Swap(s, i2, j2), i2 + 1, j2 - 1)

partition(s, pivot) == PartitionFrom(Swap(s, 1, pivot), 2, Len(s))

pdqsort(s) ==
    LET chosen == choosePivot(s)
        parted == partition(s, chosen.pivot)
        d == parted.data
    IN IF chosen.swaps = 0 /\ InOrder(s) THEN s
       ELSE insertionSort(SubSeq(d, 1, parted.mid - 1))
                \o <<d[parted.mid]>>
                \o insertionSort(SubSeq(d, parted.mid + 1, Len(d)))

SortSlice(s) == IF Len(s) <= maxInsertion THEN insertionSort(s) ELSE pdqsort(s)

\* Faulty variant of getTopNVectorRecords: the sorted records are not cut to max.
getTopNUncut(records, max) == Returned(SortSlice(records))

\* Faulty variant of getTopNVectorRecords: the records are cut to max as they
\* come, without the sort.
getTopNUnsorted(records, max) ==
    IF Len(records) < max THEN Returned(records)
    ELSE IF max < 0 THEN Panicked
    ELSE Returned(SubSeq(records, 1, max))

\* getTopNVectorRecords: records[:max] is out of range for a negative max.
getTopNVectorRecords(records, max) ==
    LET sorted == SortSlice(records)
    IN IF Len(sorted) < max THEN Returned(sorted)
       ELSE IF max < 0 THEN Panicked
       ELSE Returned(SubSeq(sorted, 1, max))

\* Faulty variant of Put: an id already in the map keeps its record.
PutIfAbsent(recs, v) ==
    [id \in DOMAIN recs \cup {v.Id} |-> IF id \in DOMAIN recs THEN recs[id] ELSE v]

\* mvs.Records[vectorRecord.Id] = vectorRecord
Put(recs, v) ==
    [id \in DOMAIN recs \cup {v.Id} |-> IF id = v.Id THEN v ELSE recs[id]]

\* The caller is between two calls of the store.
Idle == lastOp.op = "none"

Save ==
    \E r \in SaveInputs :
        LET vectorRecord == IF r.Id = "" THEN [r EXCEPT !.Id = NewUuid] ELSE r
        IN /\ Idle
           /\ vectorRecord.Id \in DOMAIN Records \/ Cardinality(DOMAIN Records) < MaxRecords
           /\ generated' = IF r.Id = "" THEN generated \cup {NewUuid} ELSE generated
           /\ Records' = Put(Records, vectorRecord)
           /\ lastOp' = [op |-> "Save", record |-> r,
                         present |-> vectorRecord.Id \in DOMAIN Records]
           /\ result' = Returned(<<vectorRecord>>)

\* GetAll is also called right after a Save, to read back what was stored.
GetAll ==
    \E order \in Orders(DOMAIN Records) :
        /\ Idle \/ lastOp.op = "Save"
        /\ lastOp' = [op |-> "GetAll"]
        /\ result' = Returned(GetAllIn(order))
        /\ UNCHANGED <<Records, generated>>

SearchSimilarities ==
    \E order \in Orders(DOMAIN Records), q \in Queries, limit \in Limits :
        /\ Idle
        /\ lastOp' = [op |-> "SearchSimilarities", query |-> q, limit |-> limit]
        /\ result' = IF SearchPanics(q) THEN Panicked
                     ELSE Returned(SearchSimilaritiesIn(order, q, limit))
        /\ Records' = RecordsAfterSearch(q, limit)
        /\ UNCHANGED generated

SearchTopNSimilarities ==
    \E order \in Orders(DOMAIN Records), q \in Queries, limit \in Limits, max \in MaxValues :
        /\ Idle
        /\ lastOp' = [op |-> "SearchTopNSimilarities", query |-> q, limit |-> limit,
                      max |-> max]
        /\ result' = IF SearchPanics(q) THEN Panicked
                     ELSE getTopNVectorRecords(SearchSimilaritiesIn(order, q, limit), max)
        /\ Records' = RecordsAfterSearch(q, limit)
        /\ UNCHANGED generated

\* getTopNVectorRecords on its own, handed a slice one element longer than the
\* insertion sort takes: SliceLen records of two embeddings, scored as
\* SearchSimilarities scores them for the query SliceQuery.
SliceLen == maxInsertion + 1
SliceIds == <<"r01", "r02", "r03", "r04", "r05", "r06", "r07", "r08", "r09", "r10",
              "r11", "r12", "r13">>
SliceEmbeddings == { <<3, 4>>, <<4, 3>> }
SliceQuery == <<5, 0>>

SliceOf(e) ==
    [i \in 1..SliceLen |->
        VectorRecord(SliceIds[i], "chunk", e[i], CosineSimilarity(SliceQuery, e[i]))]

TopNOfSlice ==
    \E e \in [1..SliceLen -> SliceEmbeddings], max \in {2, SliceLen} :
        /\ Idle
        /\ lastOp' = [op |-> "getTopNVectorRecords", records |-> SliceOf(e), max |-> max]
        /\ result' = getTopNVectorRecords(SliceOf(e), max)
        /\ UNCHANGED <<Records, generated>>

\* CosineSimilarity on its own, on vectors of integer norm at every scale.
CosineVectors ==
    { <<3, 4>>, <<4, 3>>, <<-4, 3>>, <<-3, -4>>, <<0, 5>>, <<0, 0>>, <<5>>, <<0>> }

CosineOfPair ==
    \E build \in Builds, k1 \in Scales, k2 \in Scales,
       v1 \in CosineVectors, v2 \in CosineVectors :
        /\ Idle
        /\ lastOp' = [op |-> "CosineSimilarity", build |-> build,
                      k1 |-> k1, v1 |-> v1, k2 |-> k2, v2 |-> v2]
        /\ result' = IF DotPanics(v1, v2) THEN Panicked
                     ELSE [panic |-> FALSE, records |-> <<>>,
                           similarity |-> CosineSimilarityFloat(build, k1, v1, k2, v2)]
        /\ UNCHANGED <<Records, generated>>

\* The caller has used what the call returned and goes on to its next call.
Discard ==
    /\ ~Idle
    /\ lastOp' = [op |-> "none"]
    /\ result' = Returned(<<>>)
    /\ UNCHANGED <<Records, generated>>

(***************************************************************************)
(*                   MAIN OF 03-EMBEDDINGS-DISTANCES                       *)
(***************************************************************************)

chunks ==
    << "The lions run in the savannah",
       "The birds fly in the sky",
       "The frogs swim in the pond",
       "The fish swim in the sea" >>

\* The vectors the embedding capability answers with, for a chunk and for the
\* question; they are of one length, that of the embedding model.
ChunkEmbeddings == { <<4, 3>>, <<3, 4>>, <<-4, 3>>, <<0, 5>> }
QuestionEmbeddings == { <<5, 0>>, <<0, 5>> }

\* The arguments of main's call: store.SearchTopNSimilarities(.., 0.6, 2).
MainLimit == <<3, 5>>
MainMax == 2

\* Where the range loop over chunks goes after the chunk at position i.
AfterChunk(i) == IF i + 1 > Len(chunks) THEN "question" ELSE "chunks"

\* After a chunk whose embedding request failed: the error is printed and the
\* loop goes on.
AfterChunkError(i) == AfterChunk(i)

\* The embedding request for a chunk fails.
EmbedChunkError ==
    /\ ragPc = "chunks"
    /\ embedLog' = Append(embedLog, "err")
    /\ chunkIdx' = chunkIdx + 1
    /\ ragPc' = AfterChunkError(chunkIdx)
    /\ UNCHANGED indexVars

\* The response holds no embedding: embeddingsResponse.Data[0] is out of range.
EmbedChunkNoData ==
    /\ ragPc = "chunks"
    /\ embedLog' = Append(embedLog, "nodata")
    /\ ragPc' = "panicked"
    /\ UNCHANGED <<chunkIdx, indexVars>>

\* The chunk is embedded and saved, without an id.
EmbedChunk ==
    \E e \in ChunkEmbeddings :
        /\ ragPc = "chunks"
        /\ embedLog' = Append(embedLog, "ok")
        /\ Records' = Put(Records, VectorRecord(NewUuid, chunks[chunkIdx], e, Zero))
        /\ generated' = generated \cup {NewUuid}
        /\ chunkIdx' = chunkIdx + 1
        /\ ragPc' = AfterChunk(chunkIdx)
        /\ UNCHANGED <<lastOp, result>>

\* The embedding request for the question fails: log.Fatal.
EmbedQuestionError ==
    /\ ragPc = "question"
    /\ embedLog' = Append(embedLog, "err")
    /\ ragPc' = "fatal"
    /\ UNCHANGED <<chunkIdx, indexVars>>

EmbedQuestionNoData ==
    /\ ragPc = "question"
    /\ embedLog' = Append(embedLog, "nodata")
    /\ ragPc' = "panicked"
    /\ UNCHANGED <<chunkIdx, indexVars>>

\* The question is embedded, the store is searched and the records found are
\* printed.
SearchQuestion ==
    \E q \in QuestionEmbeddings, order \in Orders(DOMAIN Records) :
        /\ ragPc = "question"
        /\ embedLog' = Append(embedLog, "ok")
        /\ lastOp' = [op |-> "SearchTopNSimilarities", query |-> q, limit |-> MainLimit,
                      max |-> MainMax]
        /\ result' = IF SearchPanics(q) THEN Panicked
                     ELSE getTopNVectorRecords(SearchSimilaritiesIn(order, q, MainLimit),
                                               MainMax)
        /\ Records' = RecordsAfterSearch(q, MainLimit)
        /\ ragPc' = IF SearchPanics(q) THEN "panicked" ELSE "done"
        /\ UNCHANGED <<chunkIdx, generated>>

(***************************************************************************)
(*                           MAIN OF 06-TOOLS                              *)
(***************************************************************************)

\* The tools main declares in the request.
tools == <<"say_hello", "vulcan_salute">>

\* The Go string a JSON string token decodes to.
StringOf(t) ==
    CASE t = "\"url\"" -> "url"
      [] t = "\"x\"" -> "x"
      [] t = "\"name\"" -> "name"
      [] t = "\"Spock\"" -> "Spock"
      [] t = "\"James Kirk\"" -> "James Kirk"

ArgsName(t) == <<"{", "\"name\"", ":", t, "}">>
ArgsNameTruncated == <<"{", "\"name\"", ":">>
ArgsNameObject == <<"{", "\"name\"", ":", "{", "}", "}">>
ArgsNameTwice(t, u) == <<"{", "\"name\"", ":", t, ",", "\"name\"", ":", u, "}">>

\* The tool calls a completion of main's request may hold: a declared tool or
\* another name, with arguments that parse or not, with or without a name.
ToolCallShapes ==
    { [name |-> n, arguments |-> a] :
        n \in {"say_hello", "vulcan_salute", "get_weather"},
        a \in {ArgsName("\"Spock\""), ArgsName("1"), ArgsEmpty, ArgsNameTruncated,
               ArgsNull, ArgsNameTwice("\"Spock\"", "1"),
               ArgsNameTwice("1", "\"James Kirk\""), ArgsNameObject} }

ToolCallBatches == UNION { [1..n -> ToolCallShapes] : n \in 1..MaxCalls }

\* JsonStringToMap: the map of the members, or nil and the error.
JsonStringToMap(jsonString) == Unmarshal(jsonString)

\* arguments["name"].(string): reading a nil map finds nothing.
HasName(arguments) ==
    \E p \in arguments.kv : p[1] = "\"name\"" /\ p[2] \in StringTokens

NameOf(arguments) ==
    StringOf((CHOOSE p \in arguments.kv : p[1] = "\"name\"" /\ p[2] \in StringTokens)[2])

sayHello(arguments) ==
    IF HasName(arguments) THEN "Hello " \o NameOf(arguments) ELSE ""

\* client.Chat.Completions.New returns an error: panic(err).
CompletionError ==
    /\ toolsPc = "requesting"
    /\ toolsPc' = "panicked"
    /\ UNCHANGED <<toolCalls, toolIdx, printed>>

\* The completion holds no choice: completion.Choices[0] is out of range.
CompletionNoChoices ==
    /\ toolsPc = "requesting"
    /\ toolsPc' = "outOfRange"
    /\ UNCHANGED <<toolCalls, toolIdx, printed>>

\* The first choice holds no tool call: main says so and returns.  (The
\* source's line starts with an emoji.)
CompletionNoToolCalls ==
    /\ toolsPc = "requesting"
    /\ printed' = printed \o <<"No function call", "">>
    /\ toolsPc' = "done"
    /\ UNCHANGED <<toolCalls, toolIdx>>

\* The first choice holds tool calls: main enters the range loop.
CompletionToolCalls ==
    \E batch \in ToolCallBatches :
        /\ toolsPc = "requesting"
        /\ toolCalls' = batch
        /\ toolIdx' = 1
        /\ toolsPc' = "dispatching"
        /\ UNCHANGED printed

AfterToolCall == IF toolIdx = Len(toolCalls) THEN "done" ELSE "dispatching"

\* The switch's only case.
IsSayHello(toolCall) == toolCall.name = "say_hello"

\* case "say_hello": the error of JsonStringToMap is dropped.
CaseSayHello ==
    /\ toolsPc = "dispatching"
    /\ IsSayHello(toolCalls[toolIdx])
    /\ printed' = Append(printed, sayHello(JsonStringToMap(toolCalls[toolIdx].arguments)))
    /\ toolIdx' = toolIdx + 1
    /\ toolsPc' = AfterToolCall
    /\ UNCHANGED toolCalls

\* default: every other name.
CaseDefault ==
    /\ toolsPc = "dispatching"
    /\ ~IsSayHello(toolCalls[toolIdx])
    /\ printed' = Append(printed, "Unknown function call: " \o toolCalls[toolIdx].name)
    /\ toolIdx' = toolIdx + 1
    /\ toolsPc' = AfterToolCall
    /\ UNCHANGED toolCalls

\* main of 06-tools before its completion request.
ToolsStart ==
    /\ toolsPc = "requesting"
    /\ toolCalls = <<>>
    /\ toolIdx = 1
    /\ printed = <<>>

IndexIdle ==
    /\ Records = <<>>
    /\ generated = {}
    /\ lastOp = [op |-> "none"]
    /\ result = Returned(<<>>)

\* main of 03-embeddings-distances before its first embedding request.
RagStart ==
    /\ ragPc = "chunks"
    /\ chunkIdx = 1
    /\ embedLog = <<>>

Init ==
    /\ mcpTools \in McpToolLists
    /\ messages = InitialMessages
    /\ pass = 1
    /\ pc = AfterConversion
    /\ detectedToolCalls = <<>>
    /\ idx = 1
    /\ toolMessages = <<>>
    /\ requests = <<>>
    /\ responses = <<>>
    /\ invocations = <<>>
    /\ IndexIdle
    /\ RagStart
    /\ ToolsStart

Next ==
    \/ DetectError /\ UNCHANGED outsideLoop
    \/ DetectNoChoices /\ UNCHANGED outsideLoop
    \/ Detect /\ UNCHANGED outsideLoop
    \/ ExecCall /\ UNCHANGED outsideLoop
    \/ AppendToolMessages /\ UNCHANGED outsideLoop
    \/ FinalCompletion /\ UNCHANGED outsideLoop

Spec == Init /\ [][Next]_vars

\* The store on its own: the loop's variables stay as main found them.
InitIndex ==
    /\ mcpTools = <<>>
    /\ messages = InitialMessages
    /\ pass = 1
    /\ pc = "requesting"
    /\ detectedToolCalls = <<>>
    /\ idx = 1
    /\ toolMessages = <<>>
    /\ requests = <<>>
    /\ responses = <<>>
    /\ invocations = <<>>
    /\ IndexIdle
    /\ RagStart
    /\ ToolsStart

NextIndex ==
    \/ Save /\ UNCHANGED outsideIndex
    \/ GetAll /\ UNCHANGED outsideIndex
    \/ SearchSimilarities /\ UNCHANGED outsideIndex
    \/ SearchTopNSimilarities /\ UNCHANGED outsideIndex
    \/ Discard /\ UNCHANGED outsideIndex

SpecIndex == InitIndex /\ [][NextIndex]_vars

\* getTopNVectorRecords on its own.
NextSort ==
    \/ TopNOfSlice /\ UNCHANGED outsideIndex
    \/ Discard /\ UNCHANGED outsideIndex

SpecSort == InitIndex /\ [][NextSort]_vars

\* CosineSimilarity on its own.
NextCosine ==
    \/ CosineOfPair /\ UNCHANGED outsideIndex
    \/ Discard /\ UNCHANGED outsideIndex

SpecCosine == InitIndex /\ [][NextCosine]_vars

\* main of 03-embeddings-distances.
NextRag ==
    \/ EmbedChunkError /\ UNCHANGED outsideRag
    \/ EmbedChunkNoData /\ UNCHANGED outsideRag
    \/ EmbedChunk /\ UNCHANGED outsideRag
    \/ EmbedQuestionError /\ UNCHANGED outsideRag
    \/ EmbedQuestionNoData /\ UNCHANGED outsideRag
    \/ SearchQuestion /\ UNCHANGED outsideRag

SpecRag == InitIndex /\ [][NextRag]_vars

\* main of 06-tools.
NextTools ==
    \/ CompletionError /\ UNCHANGED outsideTools
    \/ CompletionNoChoices /\ UNCHANGED outsideTools
    \/ CompletionNoToolCalls /\ UNCHANGED outsideTools
    \/ CompletionToolCalls /\ UNCHANGED outsideTools
    \/ CaseSayHello /\ UNCHANGED outsideTools
    \/ CaseDefault /\ UNCHANGED outsideTools

SpecTools == InitIndex /\ [][NextTools]_vars

\* Every external call returns and main keeps running until it ends.
FairSpec == Spec /\ WF_vars(Next)

(***************************************************************************)
(*                              THE CLAIMS                                 *)
(***************************************************************************)

Score(r) == r.CosineSimilarity

\* C1: whenever SearchTopNSimilarities(query, minScore, n) returns, the
\* sequence it returns has at most n elements, its scores are in descending
\* order and every score is >= minScore.
C1_TopNBounded ==
    (lastOp.op = "SearchTopNSimilarities" /\ ~result.panic) =>
        /\ Len(result.records) <= lastOp.max
        /\ \A i, j \in DOMAIN result.records :
              i < j => Geq(Score(result.records[i]), Score(result.records[j]))
        /\ \A i \in DOMAIN result.records : Geq(Score(result.records[i]), lastOp.limit)

\* A store with two records at or above the limit and one below it, asked
\* for the top 1: the better of the two is returned alone.
C1_Witness ==
    /\ lastOp.op = "SearchTopNSimilarities"
    /\ ~result.panic
    /\ lastOp.max = 1
    /\ Len(result.records) = 1
    /\ \E a, b, c \in DOMAIN Records :
          LET cos(id) == CosineSimilarity(lastOp.query, Records[id].Embedding)
          IN /\ Gt(cos(a), cos(b))
             /\ Geq(cos(b), lastOp.limit)
             /\ ~Geq(cos(c), lastOp.limit)
             /\ result.records[1].Id = a

IsDetect(r) == r.kind = "detect"
IsFinal(r) == r.kind = "final"
IsTool(m) == m.role = "tool"
DetectRequests == SelectSeq(requests, IsDetect)
FinalRequests == SelectSeq(requests, IsFinal)

\* The batch the completion capability returned in pass p.
Batch(p) == responses[p].calls
ExecutedBatches == {p \in DOMAIN responses : Batch(p) # <<>>}
ReturnedCalls == UNION {Range(Batch(p)) : p \in DOMAIN responses}

\* C2: with the pass limit MaxPasses the loop sends at most MaxPasses detection
\* requests and executes at most MaxPasses batches, whatever is returned.
C2_PassesBounded ==
    /\ Len(DetectRequests) <= MaxPasses
    /\ Cardinality(ExecutedBatches) <= MaxPasses
    /\ Cardinality({invocations[k].pass : k \in DOMAIN invocations}) <= MaxPasses

\* The completion capability returned tool calls on every request and the
\* loop ended after MaxPasses passes.
C2_Witness ==
    /\ pc = "done"
    /\ Len(DetectRequests) = MaxPasses
    /\ \A p \in DOMAIN responses : Batch(p) # <<>>

\* C3: every tool-result message of the conversation carries the id of a call
\* the completion capability returned, and that call is the one whose
\* execution produced the message's content.
C3_ResultsCorrelated ==
    \A i \in DOMAIN messages :
        IsTool(messages[i]) =>
            /\ \E c \in ReturnedCalls : c.id = messages[i].tool_call_id
            /\ \E k \in DOMAIN invocations :
                  /\ invocations[k].id = messages[i].tool_call_id
                  /\ invocations[k].outcome = "text"
                  /\ invocations[k].text = messages[i].content

\* A result message for the second call of a batch is in the conversation.
C3_Witness ==
    \E i \in DOMAIN messages, p \in DOMAIN responses :
        /\ IsTool(messages[i])
        /\ Len(Batch(p)) >= 2
        /\ messages[i].tool_call_id = Batch(p)[2].id

HasResult(id) == \E i \in DOMAIN messages : IsTool(messages[i]) /\ messages[i].tool_call_id = id

\* C4, as claimed: no tool-result message is ever appended under the id of a
\* call whose argument string is not parsable JSON.
C4_UnparsableSkipped ==
    \A c \in ReturnedCalls : Unmarshal(c.arguments).err => ~HasResult(c.id)

Invoked(id) == \E k \in DOMAIN invocations : invocations[k].id = id
Failed(id) ==
    \E k \in DOMAIN invocations :
        invocations[k].id = id /\ (invocations[k].parseErr \/ invocations[k].outcome = "err")
Succeeded(id) ==
    \E k \in DOMAIN invocations : invocations[k].id = id /\ invocations[k].outcome = "text"

\* C5: a call of a batch that fails (unparsable arguments, or an error of the
\* tool) does not abort the batch: every other call of the batch is dispatched
\* (or is still to come while the batch is being executed), and once the pass
\* is over every call that succeeded has its result message in the
\* conversation. A pass that a response without text content has crashed is
\* not one that a failed call has aborted.
C5_SiblingsUnaffected ==
    \A p \in DOMAIN responses : \A i, j \in DOMAIN Batch(p) :
        (i # j /\ Failed(Batch(p)[i].id)) =>
            /\ \/ Invoked(Batch(p)[j].id)
               \/ pc = "executing" /\ pass = p /\ idx <= j
               \/ pc = "panicked" /\ pass = p
            /\ (pass > p /\ Succeeded(Batch(p)[j].id)) => HasResult(Batch(p)[j].id)

\* A pass is over in which the first call failed and the second succeeded
\* and has its message.
C5_Witness ==
    \E p \in DOMAIN responses :
        /\ pass > p
        /\ Len(Batch(p)) >= 2
        /\ Failed(Batch(p)[1].id)
        /\ Succeeded(Batch(p)[2].id)
        /\ HasResult(Batch(p)[2].id)

\* C6: a call for which the tool-execution capability reports an error gets
\* no result message, neither collected nor appended, and the pass goes on:
\* the range loop continues, the pass completes, and the loop then requests
\* again unless the pass limit is reached.
C6_ToolErrorSkipped ==
    \A k \in DOMAIN invocations :
        invocations[k].outcome = "err" =>
            /\ ~HasResult(invocations[k].id)
            /\ \A i \in DOMAIN toolMessages :
                  toolMessages[i].tool_call_id = invocations[k].id => invocations[k].pass < pass
            /\ \/ pc = "executing" /\ pass = invocations[k].pass
               \/ pc = "panicked"
               \/ /\ pass > invocations[k].pass
                  /\ \/ Len(responses) > invocations[k].pass
                     \/ pc = "requesting"
                     \/ PassLimitReached(pass) /\ pc \in {"final", "done"}

\* The only call of the first pass failed in the tool, nothing was appended
\* and a second detection request was sent with the same conversation.
C6_Witness ==
    /\ Len(DetectRequests) = 2
    /\ \E k \in DOMAIN invocations :
          /\ invocations[k].outcome = "err"
          /\ invocations[k].pass = 1
          /\ ~invocations[k].parseErr
    /\ DetectRequests[2].messages = InitialMessages

\* C7, as claimed: once a detection request has failed, nothing more is sent
\* to the completion capability, neither a detection request nor the final
\* completion.
C7_CompletionFailureFatal ==
    \A i \in DOMAIN responses : responses[i].kind = "err" => Len(requests) = i

\* The result messages of the calls that returned a text, in the order of
\* the calls.
HasText(inv) == inv.outcome = "text"
ResultMessages ==
    LET ok == SelectSeq(invocations, HasText)
    IN [k \in DOMAIN ok |-> ToolMessage(ok[k].text, ok[k].id)]

\* C8, as claimed: the final request holds exactly the original messages
\* followed by the tool-result messages, and no tool schemas.
C8_FinalIsOriginalPlusResults ==
    pc = "done" =>
        /\ Len(FinalRequests) = 1
        /\ FinalRequests[1].messages = InitialMessages \o ResultMessages
        /\ FinalRequests[1].tools = <<>>

Terminated == pc \in {"done", "panicked"}
LoopLeft == pc \in {"final", "done"}

\* C9: every run ends; the loop is left when a detection response holds no
\* tool call and when the pass budget is used up; and a run that ends
\* normally has issued the final completion exactly once, as its last request.
C9_Terminates ==
    /\ <>Terminated
    /\ [](/\ (responses # <<>> /\ responses[Len(responses)].kind = "calls"
                 /\ responses[Len(responses)].calls = <<>>) => LoopLeft
          /\ pass > MaxPasses => LoopLeft
          /\ Len(FinalRequests) = (IF pc = "done" THEN 1 ELSE 0)
          /\ pc = "done" => IsFinal(requests[Len(requests)]))

\* A run that used up the pass budget and ended with the final completion.
C9_Witness ==
    /\ pc = "done"
    /\ pass > MaxPasses
    /\ Len(FinalRequests) = 1

\* C10, as claimed: with no declared tool schema the loop never executes a
\* tool call and the first pass ends the loop, whatever is returned.
C10_NoSchemasNoExecution ==
    openAITools = <<>> =>
        /\ pc # "executing"
        /\ invocations = <<>>
        /\ Len(DetectRequests) <= 1

Declared(name) == name \in Range(openAITools)

\* C11, as claimed: a returned call whose name is not among the declared tool
\* schemas never executes successfully and no tool-result message is appended
\* under its id.
C11_UndeclaredNeverExecuted ==
    \A k \in DOMAIN invocations :
        ~Declared(invocations[k].name) =>
            /\ invocations[k].outcome = "err"
            /\ ~HasResult(invocations[k].id)

\* C13: a detection response without choices ends the run with a runtime
\* error (the index expression completion.Choices[0] is out of range): the
\* request that got it is the last request of the run, no tool call is
\* executed for it and nothing is added to the conversation.
C13_NoChoicesFatal ==
    \A i \in DOMAIN responses :
        responses[i].kind = "nochoices" =>
            /\ pc = "panicked"
            /\ Len(requests) = i
            /\ FinalRequests = <<>>
            /\ \A k \in DOMAIN invocations : invocations[k].pass < i
            /\ messages = requests[i].messages

\* The second detection request, sent after a pass that executed a call, is
\* answered without choices.
C13_Witness ==
    /\ Len(responses) = 2
    /\ responses[2].kind = "nochoices"
    /\ invocations # <<>>
    /\ pc = "panicked"

\* The similarity of the last query to the record stored under id.
Cos(id) == CosineSimilarity(lastOp.query, Records[id].Embedding)
Qualifying == {id \in DOMAIN Records : Geq(Cos(id), lastOp.limit)}
ReturnedIds == {result.records[i].Id : i \in DOMAIN result.records}

\* C14: whenever SearchSimilarities(query, minScore) returns, it returns the
\* stored records whose similarity to the query is >= minScore and no other,
\* each once, each as stored but for the score field, which holds the computed
\* similarity; the sequence is empty when no record qualifies.
C14_SearchExact ==
    (lastOp.op = "SearchSimilarities" /\ ~result.panic) =>
        /\ ReturnedIds = Qualifying
        /\ Len(result.records) = Cardinality(Qualifying)
        /\ \A i \in DOMAIN result.records :
              LET id == result.records[i].Id
              IN result.records[i] = [Records[id] EXCEPT !.CosineSimilarity = Cos(id)]
        /\ Qualifying = {} => result.records = <<>>

\* A search that returned a record whose similarity is exactly the limit 0.6
\* and whose stored score is another value, and left out a stored record.
C14_Witness ==
    /\ lastOp.op = "SearchSimilarities"
    /\ ~result.panic
    /\ lastOp.limit = <<3, 5>>
    /\ \E i \in DOMAIN result.records :
          /\ Same(Score(result.records[i]), lastOp.limit)
          /\ ~Same(Score(Records[result.records[i].Id]), Score(result.records[i]))
    /\ \E id \in DOMAIN Records : id \notin ReturnedIds

\* Where the record r stood in the slice handed to getTopNVectorRecords.
PositionBefore(r) == CHOOSE k \in DOMAIN lastOp.records : lastOp.records[k].Id = r.Id

\* C15, as claimed: records of equal score stand in the sorted result in the
\* relative order in which the search produced them.
C15_TiesKeepOrder ==
    (lastOp.op = "getTopNVectorRecords" /\ ~result.panic) =>
        \A i, j \in DOMAIN result.records :
            (i < j /\ Same(Score(result.records[i]), Score(result.records[j]))) =>
                PositionBefore(result.records[i]) < PositionBefore(result.records[j])

\* A step in which Save is called with the record lastOp'.record.
SaveStep == lastOp.op = "none" /\ lastOp'.op = "Save"

\* C16: a Save of a record with an empty id stores it, otherwise as given,
\* under a generated id that is not empty and is not an id of the index as it
\* was before the call, so the index gains one entry; hence two such calls in
\* a row yield two ids and two entries.
C16_FreshId ==
    [][ (SaveStep /\ lastOp'.record.Id = "") =>
            LET id == result'.records[1].Id
            IN /\ id # ""
               /\ id \notin DOMAIN Records
               /\ id \notin generated
               /\ DOMAIN Records' = DOMAIN Records \cup {id}
               /\ Records'[id] = [lastOp'.record EXCEPT !.Id = id]
               /\ Cardinality(DOMAIN Records') = Cardinality(DOMAIN Records) + 1
               /\ generated' = generated \cup {id}
      ]_vars

\* Two records saved with an empty id, the second just now, one after the
\* other, are in the index under two ids.
C16_Witness ==
    /\ lastOp.op = "Save"
    /\ lastOp.record.Id = ""
    /\ DOMAIN Records = generated
    /\ Cardinality(generated) = 2

\* C17: every key of the index is the id of the record stored under it (and
\* the index, a map, holds one record per key); and a Save of a record whose
\* non-empty id is in the index puts that record in the place of the old one,
\* returns it, and leaves the other entries and the number of entries as
\* they were.
C17_OnePerId ==
    /\ [](\A id \in DOMAIN Records : Records[id].Id = id)
    /\ [][ (SaveStep /\ lastOp'.record.Id # "" /\ lastOp'.record.Id \in DOMAIN Records) =>
              LET r == lastOp'.record
              IN /\ DOMAIN Records' = DOMAIN Records
                 /\ Records'[r.Id] = r
                 /\ \A id \in DOMAIN Records \ {r.Id} : Records'[id] = Records[id]
                 /\ result' = Returned(<<r>>)
                 /\ Cardinality(DOMAIN Records') = Cardinality(DOMAIN Records)
       ]_vars

\* The record under the id "a" has just been replaced by one of another text,
\* in an index that holds another record too.
C17_Witness ==
    /\ lastOp.op = "Save"
    /\ lastOp.present
    /\ lastOp.record.Id = "a"
    /\ lastOp.record.Prompt = "The birds fly in the sky"
    /\ Records["a"] = lastOp.record
    /\ Cardinality(DOMAIN Records) >= 2

\* The positions of the returned sequence that hold a record of the given id.
PositionsOf(recs, id) == {i \in DOMAIN recs : recs[i].Id = id}

\* C18: a GetAll that follows Save(r) returns every stored record exactly
\* once, and the one that carries the id Save returned has the text and the
\* embedding of r.
C18_RoundTrip ==
    [][ (lastOp.op = "Save" /\ lastOp'.op = "GetAll") =>
            LET r == lastOp.record
                id == result.records[1].Id
                all == result'.records
            IN /\ ~result'.panic
               /\ Len(all) = Cardinality(DOMAIN Records)
               /\ \A k \in DOMAIN Records :
                     /\ Cardinality(PositionsOf(all, k)) = 1
                     /\ \A i \in PositionsOf(all, k) : all[i] = Records[k]
               /\ \A i \in PositionsOf(all, id) :
                     all[i].Prompt = r.Prompt /\ all[i].Embedding = r.Embedding
               /\ PositionsOf(all, id) # {}
      ]_vars

\* GetAll has returned MaxRecords records, among them one saved without an id
\* and the record saved under "a".
C18_Witness ==
    /\ lastOp.op = "GetAll"
    /\ Len(result.records) = MaxRecords
    /\ \E i, j \in DOMAIN result.records :
          /\ result.records[i].Id \in generated
          /\ result.records[j].Id = "a"

\* A step in which GetAll or one of the two searches is called.
ReadStep ==
    /\ lastOp.op \in {"none", "Save"}
    /\ lastOp'.op \in {"GetAll", "SearchSimilarities", "SearchTopNSimilarities"}

\* C19: GetAll, SearchSimilarities and SearchTopNSimilarities leave the index
\* as it was, ids and records with their text, embedding and stored score;
\* and no step of any operation takes an id out of the index.
C19_ReadsLeaveIndex ==
    [][ /\ ReadStep => Records' = Records
        /\ \A id \in DOMAIN Records : id \in DOMAIN Records'
      ]_vars

\* A search has returned a record with a score other than the one stored
\* with it, and the stored score is still 0.5.
C19_Witness ==
    /\ lastOp.op \in {"SearchSimilarities", "SearchTopNSimilarities"}
    /\ \E i \in DOMAIN result.records :
          /\ result.records[i].Id = "a"
          /\ ~Same(Score(result.records[i]), <<1, 2>>)
          /\ Score(Records["a"]) = <<1, 2>>

\* C20, as claimed: SearchSimilarities and SearchTopNSimilarities always
\* return a sequence, whatever the index holds and whatever the query, and
\* they return the empty sequence on an empty index.
C20_SearchNeverFails ==
    lastOp.op \in {"SearchSimilarities", "SearchTopNSimilarities"} =>
        /\ ~result.panic
        /\ Records = <<>> => result = Returned(<<>>)

\* The records found whose text is a swim chunk, and the stored records that
\* reach the limit of the last search.
SwimChunks == {chunks[3], chunks[4]}
QualifyingPrompts == {Records[id].Prompt : id \in Qualifying}

\* C21: when main has stored the four chunks and only the two swim chunks
\* reach 0.6 against the question, SearchTopNSimilarities(question, 0.6, 2)
\* returns these two chunks and no other, each with its similarity, the one
\* of the higher similarity first.
C21_SwimScenario ==
    (ragPc = "done" /\ Cardinality(DOMAIN Records) = Len(chunks)
                    /\ QualifyingPrompts = SwimChunks) =>
        /\ ~result.panic
        /\ Len(result.records) = 2
        /\ {result.records[i].Prompt : i \in DOMAIN result.records} = SwimChunks
        /\ Geq(Score(result.records[1]), Score(result.records[2]))
        /\ \A i \in DOMAIN result.records :
              Score(result.records[i]) = Cos(result.records[i].Id)

\* The run the document shows: the fish chunk is closer to the question than
\* the frogs chunk and comes first, and the other two chunks are below the
\* limit.
C21_Witness ==
    /\ ragPc = "done"
    /\ Cardinality(DOMAIN Records) = Len(chunks)
    /\ QualifyingPrompts = SwimChunks
    /\ Len(result.records) = 2
    /\ result.records[1].Prompt = chunks[4]
    /\ Gt(Score(result.records[1]), Score(result.records[2]))

\* C22, as claimed: an embedding request that fails is the last thing main
\* does: no further chunk is embedded, the question is not embedded and the
\* store is not searched.
C22_EmbeddingFailureAborts ==
    \A i \in DOMAIN embedLog :
        embedLog[i] = "err" =>
            /\ Len(embedLog) = i
            /\ lastOp.op = "none"
            /\ ragPc # "done"

IsPrefix(s, t) == Len(s) <= Len(t) /\ SubSeq(t, 1, Len(s)) = s

\* C23: every step of a run leaves the messages it found at the front of the
\* conversation, in place and unchanged, and every detection request of the
\* run carries the same tool schemas, those converted before the loop.
C23_AppendOnlyFixedTools ==
    /\ [][IsPrefix(messages, messages')]_vars
    /\ [](\A i \in DOMAIN DetectRequests :
             /\ DetectRequests[i].tools = openAITools
             /\ DetectRequests[i].tools = DetectRequests[1].tools
             /\ IsPrefix(DetectRequests[1].messages, DetectRequests[i].messages))

\* A second detection request went out with tool schemas and with a
\* conversation longer than that of the first.
C23_Witness ==
    /\ Len(DetectRequests) = 2
    /\ DetectRequests[2].tools # <<>>
    /\ Len(DetectRequests[2].messages) > Len(DetectRequests[1].messages)

IsZeroVector(v) == \A i \in DOMAIN v : v[i] = 0

\* C24: CosineSimilarity of any vector and the zero vector of its length, in
\* either order, returns 0: it does not crash and its result is not the
\* NaN of a division by zero.
C24_ZeroVectorIsZero ==
    (/\ lastOp.op = "CosineSimilarity"
     /\ Len(lastOp.v1) = Len(lastOp.v2)
     /\ IsZeroVector(lastOp.v1) \/ IsZeroVector(lastOp.v2)) =>
        /\ ~result.panic
        /\ result.similarity = Number(Zero)

\* The zero vector as second argument of a vector too large for its square
\* to be a float64.
C24_Witness ==
    /\ lastOp.op = "CosineSimilarity"
    /\ lastOp.k1 = "huge"
    /\ lastOp.v1 = <<3, 4>>
    /\ lastOp.v2 = <<0, 0>>
    /\ ~result.panic
    /\ result.similarity = Number(Zero)

\* C25, as claimed: CosineSimilarity(v, v) is 1 for every vector v that is not
\* the zero vector.
C25_SelfSimilarityIsOne ==
    (/\ lastOp.op = "CosineSimilarity"
     /\ lastOp.k1 = lastOp.k2
     /\ lastOp.v1 = lastOp.v2
     /\ ~IsZeroVector(lastOp.v1)) =>
        /\ ~result.panic
        /\ ~result.similarity.nan
        /\ Same(result.similarity.value, <<1, 1>>)

Min(a, b) == IF a <= b THEN a ELSE b

\* C26: whenever SearchTopNSimilarities(query, minScore, max) returns, it
\* returns min(max, number of qualifying records) records, each a different
\* qualifying record with its computed similarity, and no qualifying record
\* it leaves out is closer to the query than a record it returns.
C26_TopNIsSortedPrefix ==
    (lastOp.op = "SearchTopNSimilarities" /\ ~result.panic) =>
        /\ Len(result.records) = Min(lastOp.max, Cardinality(Qualifying))
        /\ Cardinality(ReturnedIds) = Len(result.records)
        /\ ReturnedIds \subseteq Qualifying
        /\ \A i \in DOMAIN result.records :
              LET id == result.records[i].Id
              IN result.records[i] = [Records[id] EXCEPT !.CosineSimilarity = Cos(id)]
        /\ \A id \in Qualifying \ ReturnedIds : \A i \in DOMAIN result.records :
              Geq(Score(result.records[i]), Cos(id))

\* Three records qualify, the top 2 are asked for, and the record left out is
\* farther from the query than both records returned.
C26_Witness ==
    /\ lastOp.op = "SearchTopNSimilarities"
    /\ ~result.panic
    /\ lastOp.max = 2
    /\ Cardinality(Qualifying) = 3
    /\ Len(result.records) = 2
    /\ \E id \in Qualifying \ ReturnedIds : \A i \in DOMAIN result.records :
          Gt(Score(result.records[i]), Cos(id))

\* C27: when the loop is left on the pass limit, every call of every batch
\* detected, the batch of the last permitted pass included, has been
\* dispatched and every call that succeeded has its result message in the
\* conversation; the limit has only kept a further detection request from
\* being sent.
C27_LimitAfterExecution ==
    (PassLimitReached(pass) /\ LoopLeft) =>
        /\ Len(DetectRequests) = MaxPasses
        /\ Batch(MaxPasses) # <<>>
        /\ \A p \in DOMAIN responses : \A j \in DOMAIN Batch(p) :
              /\ Invoked(Batch(p)[j].id)
              /\ Succeeded(Batch(p)[j].id) => HasResult(Batch(p)[j].id)
        /\ pc = "done" =>
              \A c \in Range(Batch(MaxPasses)) :
                  Succeeded(c.id) =>
                      \E i \in DOMAIN FinalRequests[1].messages :
                          /\ IsTool(FinalRequests[1].messages[i])
                          /\ FinalRequests[1].messages[i].tool_call_id = c.id

\* The loop was left on the pass limit after a last pass of two calls, of
\* which one succeeded, and the final completion has been requested.
C27_Witness ==
    /\ PassLimitReached(pass)
    /\ pc = "done"
    /\ Len(Batch(MaxPasses)) = 2
    /\ \E c \in Range(Batch(MaxPasses)) : Succeeded(c.id) /\ HasResult(c.id)

\* Every call of the batch of pass p was dispatched and the tool answered it
\* with an error.
AllFailed(p) ==
    /\ Batch(p) # <<>>
    /\ \A j \in DOMAIN Batch(p) :
          \E k \in DOMAIN invocations :
              invocations[k].id = Batch(p)[j].id /\ invocations[k].outcome = "err"

\* C28: a pass whose calls have all failed adds nothing to the conversation
\* and counts as a pass: below the pass limit the loop sends the next
\* detection request, with the messages of the request before; at the limit
\* it is left.
C28_FailedPassCounts ==
    \A p \in DOMAIN responses :
        (AllFailed(p) /\ pass > p) =>
            /\ \A c \in Range(Batch(p)) : ~HasResult(c.id)
            /\ p < MaxPasses =>
                  \/ /\ pc = "requesting"
                     /\ Len(responses) = p
                     /\ messages = DetectRequests[p].messages
                  \/ /\ Len(DetectRequests) > p
                     /\ DetectRequests[p + 1].messages = DetectRequests[p].messages
            /\ p = MaxPasses => LoopLeft

\* Both calls of the first pass failed and the second detection request went
\* out with the messages of the first.
C28_Witness ==
    /\ Len(DetectRequests) = 2
    /\ AllFailed(1)
    /\ Len(Batch(1)) = 2
    /\ DetectRequests[2].messages = DetectRequests[1].messages

\* The calls of all batches returned so far, in the order returned.
RECURSIVE FlatCalls(_)
FlatCalls(rs) == IF rs = <<>> THEN <<>> ELSE Head(rs).calls \o FlatCalls(Tail(rs))

\* The result messages of the passes that are over.
AppendedBefore(inv) == inv.outcome = "text" /\ inv.pass < pass
ResultMessagesOfPastPasses ==
    LET ok == SelectSeq(invocations, AppendedBefore)
    IN [k \in DOMAIN ok |-> ToolMessage(ok[k].text, ok[k].id)]

\* C29: the dispatches of a run are the returned calls, one dispatch per call,
\* in the order returned, each in the pass of its batch; and the tool-result
\* messages of the conversation are those of the successful calls of the
\* passes that are over, in the order of the calls, so that the messages of a
\* pass stand in call order behind those of the passes before it.
C29_DispatchAndResultOrder ==
    LET flat == FlatCalls(responses)
    IN /\ Len(invocations) <= Len(flat)
       /\ \A k \in DOMAIN invocations :
             /\ invocations[k].id = flat[k].id
             /\ invocations[k].name = flat[k].name
             /\ \E j \in DOMAIN Batch(invocations[k].pass) :
                   Batch(invocations[k].pass)[j] = flat[k]
       /\ \A k \in DOMAIN flat :
             k > Len(invocations) => pc \in {"executing", "panicked"}
       /\ SelectSeq(messages, IsTool) = ResultMessagesOfPastPasses
       /\ \A i, j \in DOMAIN messages :
             (i < j /\ IsTool(messages[i])) => messages[j].role # "user"

\* A pass of one successful call followed by a pass of two: the conversation
\* holds the three result messages in the order of the calls.
C29_Witness ==
    /\ Len(responses) = 2
    /\ Len(Batch(1)) = 1
    /\ Len(Batch(2)) = 2
    /\ Len(SelectSeq(messages, IsTool)) = 3
    /\ SelectSeq(messages, IsTool)[2].tool_call_id = Batch(2)[1].id
    /\ SelectSeq(messages, IsTool)[3].tool_call_id = Batch(2)[2].id

\* The function the document gives for the second declared tool
\* (04-tools.md, "Implementing the tools").
vulcanSalute(arguments) ==
    IF HasName(arguments) THEN "Live long and prosper " \o NameOf(arguments) ELSE ""

\* The line main has printed for the k-th tool call.
Dispatched == 1..Len(printed)

\* C30: in main of 06-tools every detected tool call named say_hello or
\* vulcan_salute has the corresponding function run on its parsed arguments
\* and its result printed, and only a name that is not a declared tool
\* reaches the "Unknown function call" branch.
C30_DeclaredToolsExecuted ==
    toolsPc \in {"dispatching", "done"} /\ toolCalls # <<>> =>
        \A k \in Dispatched :
            LET toolCall == toolCalls[k]
                args == JsonStringToMap(toolCall.arguments)
            IN /\ toolCall.name = "say_hello" => printed[k] = sayHello(args)
               /\ toolCall.name = "vulcan_salute" => printed[k] = vulcanSalute(args)
               /\ printed[k] = "Unknown function call: " \o toolCall.name
                    => toolCall.name \notin Range(tools)

====
